---- MODULE Spec2Model ----
(***************************************************************************)
(* The live playback state synchronizer of the terminal client (package    *)
(* main in src/internal/devices/devices.go, lines 383-711, with            *)
(* player.EventHandler, player.Client and display.CreateProgressBar).      *)
(*                                                                         *)
(* Durations are counted in milliseconds: time.Millisecond is 1 and        *)
(* time.Second is Second.  A Go string is a TLA+ string, except            *)
(* artistNames, which is the token sequence joinStrings builds.            *)
(***************************************************************************)
EXTENDS Integers, Sequences, FiniteSets, TLC

VARIABLES
    phase,      \* where main is: "start", "connect", "seed", "raw", "loop", "request", "exited"
    exit,       \* how main ended: "none", "return", "osexit", "panic"
    daemon,     \* the go-librespot subprocess: "notstarted", "running", "stopped"
    state,      \* *appState, the view
    conn,       \* the websocket connection: "none", "open", "dropped", "closed"
    wire,       \* messages the remote player has written and the reader has not read yet
    reader,     \* the goroutine of EventHandler.Start: "none", "reading", "exited"
    evCh,       \* events.Ch: the buffered events
    evClosed,   \* events.Ch has been closed
    keysCh,     \* keysCh: the buffered key chunks
    pend,       \* handleKey's position while it waits in an HTTP call
    http,       \* the control request the remote player is handling, or NoRequest
    remote,     \* the remote player's own state
    last,       \* the item main handled last: its kind, its type and how it went
    trail,      \* the items main handled last, each with the view it found
    skipped,    \* messages the reader has skipped so far
    feed,       \* the class of inputs this run is fed
    evLog,      \* every event the reader has sent to events.Ch, in order
    keyLog,     \* every chunk the key reader has sent to keysCh, in order
    nInputs     \* messages written by the player and chunks read from stdin so far

vars == <<phase, exit, daemon, state, conn, wire, reader, evCh, evClosed,
          keysCh, pend, http, remote, last, trail, skipped, feed, evLog, keyLog, nInputs>>

----------------------------------------------------------------------------
(* Bounds of the model *)

\* messages the remote player writes plus chunks the key reader reads in one run
MaxInputs == 2

\* the same for a run that is fed repeat keys only
CycleInputs == 3

\* the messages of a run that is fed messages only: one more than events.Ch holds
IntakeEvents == 33

\* the chunks of a run that is fed chunks only: one more than keysCh holds
IntakeKeys == 17

\* the items the trail remembers
TrailLen == 3

----------------------------------------------------------------------------
(* Program constants *)

\* time.Second, in milliseconds
Second == 1000

\* capacity of events.Ch
EventCap == 32

\* capacity of keysCh
KeysCap == 16

\* the width DisplayCurrentTrack passes to CreateProgressBar
BarWidth == 50

\* the volume step of the up and down keys
VolumeStep == 5

\* the upper clamp of the volume keys
VolumeMax == 100

Min(a, b) == IF a < b THEN a ELSE b

Max(a, b) == IF a > b THEN a ELSE b

----------------------------------------------------------------------------
(* joinStrings: the names separated by ", " *)

RECURSIVE JoinRest(_)
JoinRest(ss) ==
    IF Len(ss) = 0 THEN <<>> ELSE <<", ", Head(ss)>> \o JoinRest(Tail(ss))

joinStrings(ss) ==
    IF Len(ss) = 0 THEN <<>> ELSE <<Head(ss)>> \o JoinRest(Tail(ss))

----------------------------------------------------------------------------
(* The view *)

\* a mutant of InitialState: the view is created stopped
InitialStateStopped ==
    [ trackName |-> "", artistNames |-> <<>>, albumName |-> "", duration |-> 0,
      progress |-> 0, isPlaying |-> FALSE, shuffle |-> FALSE, repeat |-> "off",
      volume |-> 0, stopped |-> TRUE ]

\* a mutant of InitialState: the view is created playing
InitialStatePlaying ==
    [ trackName |-> "", artistNames |-> <<>>, albumName |-> "", duration |-> 0,
      progress |-> 0, isPlaying |-> TRUE, shuffle |-> FALSE, repeat |-> "off",
      volume |-> 0, stopped |-> FALSE ]

\* &appState{repeat: "off"}: every other field has Go's zero value
InitialState ==
    [ trackName   |-> "",
      artistNames |-> <<>>,
      albumName   |-> "",
      duration    |-> 0,
      progress    |-> 0,
      isPlaying   |-> FALSE,
      shuffle     |-> FALSE,
      repeat      |-> "off",
      volume      |-> 0,
      stopped     |-> FALSE ]

----------------------------------------------------------------------------
(* Push messages.  A message that is not JSON for an Event has wf = FALSE. *)
(* A well-formed one carries its type and its payload: ok says whether     *)
(* json.Unmarshal decodes the payload into the struct of its type, and d   *)
(* is the decoded struct (EventMetadata, EventSeek, EventVolume,           *)
(* EventBool), the fields the type lacks left at zero.                     *)

NoData ==
    [ name |-> "", artistNames |-> <<>>, albumName |-> "",
      duration |-> 0, position |-> 0, value |-> 0, bvalue |-> FALSE ]

Message(type, ok, d) == [wf |-> TRUE, type |-> type, ok |-> ok, d |-> d]

Malformed == [wf |-> FALSE, type |-> "", ok |-> FALSE, d |-> NoData]

TrackA == [NoData EXCEPT !.name = "A", !.artistNames = <<"x", "y">>, !.albumName = "LP"]

TrackB == [NoData EXCEPT !.name = "B", !.artistNames = <<"z">>, !.albumName = "EP"]

Metadata(track, duration, position) ==
    Message("metadata", TRUE, [track EXCEPT !.duration = duration, !.position = position])

Seek(position, duration) ==
    Message("seek", TRUE, [NoData EXCEPT !.duration = duration, !.position = position])

Volume(value) == Message("volume", TRUE, [NoData EXCEPT !.value = value])

Bool(type, b) == Message(type, TRUE, [NoData EXCEPT !.bvalue = b])

\* the types applyEvent decodes a payload for
DecodedTypes ==
    {"metadata", "seek", "volume", "shuffle_context", "repeat_context", "repeat_track"}

\* the types applyEvent applies without looking at the payload
PlainTypes == {"playing", "paused", "stopped"}

\* a type applyEvent has no case for
UnknownType == "will_play"

\* positions and durations of the payloads, in milliseconds: a position
\* inside the track, one below zero and one past the end, and a seek into
\* a long track
Messages ==
    { Metadata(TrackA, 3000, 1500), Metadata(TrackB, 2000, 5000),
      Seek(2000, 3000), Seek(0 - 1000, 3000), Seek(90000, 200000),
      Volume(40), Volume(150) }
    \cup { Bool(t, b) : t \in {"shuffle_context", "repeat_context", "repeat_track"},
                        b \in BOOLEAN }
    \cup { Message(t, ok, NoData) : t \in PlainTypes, ok \in BOOLEAN }
    \cup { Message(t, FALSE, NoData) : t \in DecodedTypes }
    \cup { Message(UnknownType, TRUE, NoData), Malformed }

----------------------------------------------------------------------------
(* applyEvent *)

\* a mutant of applyMetadata: the extrapolated progress is kept
applyMetadataKeepsProgress(s, d) ==
    [s EXCEPT !.trackName   = d.name,
              !.artistNames = joinStrings(d.artistNames),
              !.albumName   = d.albumName,
              !.duration    = d.duration,
              !.stopped     = FALSE]

applyMetadata(s, d) ==
    [s EXCEPT !.trackName   = d.name,
              !.artistNames = joinStrings(d.artistNames),
              !.albumName   = d.albumName,
              !.duration    = d.duration,
              !.progress    = d.position,
              !.stopped     = FALSE]

applyPlaying(s) == [s EXCEPT !.isPlaying = TRUE, !.stopped = FALSE]

\* a mutant of applyPaused: the event is ignored
applyPausedIgnored(s) == s

applyPaused(s) == [s EXCEPT !.isPlaying = FALSE]

\* a mutant of applyStopped: the position is rewound
applyStoppedRewinds(s) == [s EXCEPT !.isPlaying = FALSE, !.stopped = TRUE, !.progress = 0]

applyStopped(s) == [s EXCEPT !.isPlaying = FALSE, !.stopped = TRUE]

applySeek(s, d) == [s EXCEPT !.progress = d.position, !.duration = d.duration]

applyVolume(s, d) == [s EXCEPT !.volume = d.value]

applyShuffle(s, d) == [s EXCEPT !.shuffle = d.bvalue]

\* a mutant of applyRepeatContext: value false resets whatever mode is set
applyRepeatContextClobbers(s, d) ==
    IF d.bvalue THEN [s EXCEPT !.repeat = "context"] ELSE [s EXCEPT !.repeat = "off"]

applyRepeatContext(s, d) ==
    IF d.bvalue THEN [s EXCEPT !.repeat = "context"]
    ELSE IF s.repeat = "context" THEN [s EXCEPT !.repeat = "off"]
    ELSE s

\* a mutant of applyRepeatTrack: context repeat is not superseded
applyRepeatTrackUnlessContext(s, d) ==
    IF d.bvalue /\ s.repeat # "context" THEN [s EXCEPT !.repeat = "track"]
    ELSE IF ~d.bvalue /\ s.repeat = "track" THEN [s EXCEPT !.repeat = "off"]
    ELSE s

applyRepeatTrack(s, d) ==
    IF d.bvalue THEN [s EXCEPT !.repeat = "track"]
    ELSE IF s.repeat = "track" THEN [s EXCEPT !.repeat = "off"]
    ELSE s

\* a mutant of applyEvent: the error of json.Unmarshal is not looked at
applyEventUnchecked(s, ev) ==
    CASE ev.type = "metadata"        -> applyMetadata(s, ev.d)
      [] ev.type = "playing"         -> applyPlaying(s)
      [] ev.type = "paused"          -> applyPaused(s)
      [] ev.type = "stopped"         -> applyStopped(s)
      [] ev.type = "seek"            -> applySeek(s, ev.d)
      [] ev.type = "volume"          -> applyVolume(s, ev.d)
      [] ev.type = "shuffle_context" -> applyShuffle(s, ev.d)
      [] ev.type = "repeat_context"  -> applyRepeatContext(s, ev.d)
      [] ev.type = "repeat_track"    -> applyRepeatTrack(s, ev.d)
      [] OTHER                       -> s

applyEvent(s, ev) ==
    CASE ev.type = "metadata"        -> IF ev.ok THEN applyMetadata(s, ev.d) ELSE s
      [] ev.type = "playing"         -> applyPlaying(s)
      [] ev.type = "paused"          -> applyPaused(s)
      [] ev.type = "stopped"         -> applyStopped(s)
      [] ev.type = "seek"            -> IF ev.ok THEN applySeek(s, ev.d) ELSE s
      [] ev.type = "volume"          -> IF ev.ok THEN applyVolume(s, ev.d) ELSE s
      [] ev.type = "shuffle_context" -> IF ev.ok THEN applyShuffle(s, ev.d) ELSE s
      [] ev.type = "repeat_context"  -> IF ev.ok THEN applyRepeatContext(s, ev.d) ELSE s
      [] ev.type = "repeat_track"    -> IF ev.ok THEN applyRepeatTrack(s, ev.d) ELSE s
      [] OTHER                       -> s

----------------------------------------------------------------------------
(* applyStatus *)

\* player.Status: hasTrack says whether Track is non-nil
Status(stopped, paused, volume, rc, rt, sh, hasTrack, track, duration) ==
    [ Stopped |-> stopped, Paused |-> paused, Volume |-> volume,
      RepeatContext |-> rc, RepeatTrack |-> rt, ShuffleContext |-> sh,
      hasTrack |-> hasTrack,
      Track |-> [track EXCEPT !.duration = duration] ]

Statuses ==
    { Status(st, pa, vol, rc, rt, sh, ht, TrackA, 3000) :
        st \in BOOLEAN, pa \in BOOLEAN, vol \in {30, 150}, rc \in BOOLEAN,
        rt \in BOOLEAN, sh \in BOOLEAN, ht \in BOOLEAN }

statusRepeat(st) ==
    IF st.RepeatTrack THEN "track"
    ELSE IF st.RepeatContext THEN "context"
    ELSE "off"

applyStatus(s, st) ==
    LET s1 == [s EXCEPT !.isPlaying = ~st.Paused /\ ~st.Stopped,
                        !.stopped   = st.Stopped,
                        !.shuffle   = st.ShuffleContext,
                        !.volume    = st.Volume,
                        !.repeat    = statusRepeat(st)]
    IN  IF st.hasTrack
        THEN [s1 EXCEPT !.trackName   = st.Track.name,
                        !.artistNames = joinStrings(st.Track.artistNames),
                        !.albumName   = st.Track.albumName,
                        !.duration    = st.Track.duration]
        ELSE s1

----------------------------------------------------------------------------
(* The ticker case of main's select *)

\* a mutant of tick: stopped is not looked at
tickWhileStopped(s) ==
    IF s.isPlaying
    THEN [s EXCEPT !.progress = Min(s.progress + Second, s.duration)]
    ELSE s

\* a mutant of tick: the step is time.Millisecond
tickMillisecond(s) ==
    IF s.isPlaying /\ ~s.stopped
    THEN [s EXCEPT !.progress = Min(s.progress + 1, s.duration)]
    ELSE s

tick(s) ==
    IF s.isPlaying /\ ~s.stopped
    THEN [s EXCEPT !.progress = Min(s.progress + Second, s.duration)]
    ELSE s

----------------------------------------------------------------------------
(* render: display.DisplayCurrentTrack calls CreateProgressBar, whose      *)
(* strings.Repeat panics on a negative count.                              *)

\* int(x / y) for integers: Go's conversion truncates toward zero
TruncDiv(x, y) ==
    IF (x >= 0) = (y > 0) THEN (IF x >= 0 THEN x ELSE 0 - x) \div (IF y > 0 THEN y ELSE 0 - y)
    ELSE 0 - ((IF x >= 0 THEN x ELSE 0 - x) \div (IF y > 0 THEN y ELSE 0 - y))

\* filled, after the two clamps
barFilled(current, total, width) ==
    Max(0, Min(width, TruncDiv(width * current, total)))

\* the count of the last strings.Repeat of CreateProgressBar
barRest(current, total, width) == width - barFilled(current, total, width) - 1

CreateProgressBarPanics(current, total, width) ==
    IF total = 0 THEN width < 0
    ELSE barRest(current, total, width) < 0

\* render returns before DisplayCurrentTrack when nothing is playing
renderPanics(s) ==
    /\ ~(s.stopped \/ s.trackName = "")
    /\ CreateProgressBarPanics(s.progress, s.duration, BarWidth)

----------------------------------------------------------------------------
(* handleKey.  A chunk is what one os.Stdin.Read returned: up to 4 bytes.  *)

Keys ==
    { <<113>>, <<3>>,                 \* q, Ctrl+C
      <<32>>,                         \* space
      <<108>>, <<27, 91, 67>>,        \* l, right arrow
      <<104>>, <<27, 91, 68>>,        \* h, left arrow
      <<107>>, <<27, 91, 65>>,        \* k, up arrow
      <<106>>, <<27, 91, 66>>,        \* j, down arrow
      <<115>>, <<114>>,               \* s, r
      <<120>>,                        \* x: no binding
      <<106, 106>> }                  \* j pressed twice before one Read

isArrow(key, c) == Len(key) = 3 /\ key[1] = 27 /\ key[2] = 91 /\ key[3] = c

\* the case of handleKey's switch a chunk selects
keyCommand(key) ==
    CASE Len(key) = 1 /\ key[1] \in {113, 3}       -> "quit"
      [] Len(key) = 1 /\ key[1] = 32               -> "playpause"
      [] (Len(key) = 1 /\ key[1] = 108) \/ isArrow(key, 67) -> "next"
      [] (Len(key) = 1 /\ key[1] = 104) \/ isArrow(key, 68) -> "prev"
      [] (Len(key) = 1 /\ key[1] = 107) \/ isArrow(key, 65) -> "volup"
      [] (Len(key) = 1 /\ key[1] = 106) \/ isArrow(key, 66) -> "voldown"
      [] Len(key) = 1 /\ key[1] = 115              -> "shuffle"
      [] Len(key) = 1 /\ key[1] = 114              -> "repeat"
      [] OTHER                                     -> "none"

Request(op, on, delta) == [op |-> op, on |-> on, delta |-> delta]

NoRequest == Request("none", FALSE, 0)

\* the requests cycleRepeat sends, in order
cycleRepeatRequests(s) ==
    CASE s.repeat = "off"     -> <<Request("repeat_context", TRUE, 0)>>
      [] s.repeat = "context" -> <<Request("repeat_context", FALSE, 0),
                                   Request("repeat_track", TRUE, 0)>>
      [] OTHER                -> <<Request("repeat_track", FALSE, 0)>>

\* a mutant of cycleRepeat: track repeat is never chosen
cycleRepeatTwoWay(s) ==
    CASE s.repeat = "off" -> [s EXCEPT !.repeat = "context"]
      [] OTHER            -> [s EXCEPT !.repeat = "off"]

\* what cycleRepeat leaves in state.repeat
cycleRepeat(s) ==
    CASE s.repeat = "off"     -> [s EXCEPT !.repeat = "context"]
      [] s.repeat = "context" -> [s EXCEPT !.repeat = "track"]
      [] OTHER                -> [s EXCEPT !.repeat = "off"]

\* the calls on pc a command makes, in order
keyRequests(cmd, s) ==
    CASE cmd = "playpause" -> <<Request("playpause", FALSE, 0)>>
      [] cmd = "next"      -> <<Request("next", FALSE, 0)>>
      [] cmd = "prev"      -> <<Request("prev", FALSE, 0)>>
      [] cmd = "volup"     -> <<Request("volume", FALSE, VolumeStep)>>
      [] cmd = "voldown"   -> <<Request("volume", FALSE, 0 - VolumeStep)>>
      [] cmd = "shuffle"   -> <<Request("shuffle_context", ~s.shuffle, 0)>>
      [] cmd = "repeat"    -> cycleRepeatRequests(s)
      [] OTHER             -> <<>>

\* a mutant of keyEffect: a skip is taken to start playback
keyEffectSkipPlays(cmd, s) ==
    CASE cmd = "playpause" -> [s EXCEPT !.isPlaying = ~s.isPlaying]
      [] cmd \in {"next", "prev"} -> [s EXCEPT !.isPlaying = TRUE]
      [] cmd = "volup"     -> [s EXCEPT !.volume = Min(VolumeMax, s.volume + VolumeStep)]
      [] cmd = "voldown"   -> [s EXCEPT !.volume = Max(0, s.volume - VolumeStep)]
      [] cmd = "shuffle"   -> [s EXCEPT !.shuffle = ~s.shuffle]
      [] cmd = "repeat"    -> cycleRepeat(s)
      [] OTHER             -> s

\* the assignment to *state a command ends with, whatever its calls returned
keyEffect(cmd, s) ==
    CASE cmd = "playpause" -> [s EXCEPT !.isPlaying = ~s.isPlaying]
      [] cmd = "volup"     -> [s EXCEPT !.volume = Min(VolumeMax, s.volume + VolumeStep)]
      [] cmd = "voldown"   -> [s EXCEPT !.volume = Max(0, s.volume - VolumeStep)]
      [] cmd = "shuffle"   -> [s EXCEPT !.shuffle = ~s.shuffle]
      [] cmd = "repeat"    -> cycleRepeat(s)
      [] OTHER             -> s

\* a mutant of handleKeyDone: a failed call undoes the assignment
handleKeyDoneRollback(cmd, s, failed) == IF failed THEN s ELSE keyEffect(cmd, s)

\* handleKey's state after its last call returned; failed says whether a
\* call returned an error
handleKeyDone(cmd, s, failed) == keyEffect(cmd, s)

NoPend == [cmd |-> "none", reqs |-> <<>>, failed |-> FALSE]

----------------------------------------------------------------------------
(* The inputs of one run.  A run is fed one class of inputs: the messages, *)
(* key chunks and /status answers that drive one group of fields of the    *)
(* view.                                                                   *)

Feeds == {"track", "play", "volume", "shuffle", "repeat", "skip", "cycle", "seek"}

\* the seek into a long track, which many ticks can follow
LongSeek == Seek(90000, 200000)

TrackMessages ==
    { m \in Messages : m.type \in {"metadata", "seek"} } \ {LongSeek}

PlayMessages == { m \in Messages : m.type \in PlainTypes }

SeekMessages == { LongSeek, Message("playing", TRUE, NoData) }

VolumeMessages == { m \in Messages : m.type = "volume" \/ ~m.wf }

ShuffleMessages == { m \in Messages : m.type \in {"shuffle_context", UnknownType} }

RepeatMessages ==
    { m \in Messages : m.type \in {"repeat_context", "repeat_track"} }

CycleMessages == { Bool("repeat_context", TRUE) }

\* a seek to a position past the end of its track, and the start of playback
PastMessages == { Seek(5000, 2000), Message("playing", TRUE, NoData) }

\* the feeds that fill a channel: "events" is fed volume messages, each with
\* a value of its own, and "keys" is fed the chunks j and k in turn
IntakeFeeds == {"events", "keys"}

MessagesOf(f) ==
    CASE f = "track"  -> TrackMessages
      [] f = "play"   -> PlayMessages
      [] f = "volume" -> VolumeMessages
      [] f = "shuffle" -> ShuffleMessages
      [] f = "skip"   -> {}
      [] f = "cycle"  -> CycleMessages
      [] f = "seek"   -> SeekMessages
      [] f = "events" -> { Volume(Len(evLog) + Len(wire) + skipped) }
      [] f = "keys"   -> {}
      [] f = "past"   -> PastMessages
      [] OTHER        -> RepeatMessages

TrackKeys == { <<120>> }

PlayKeys == { <<32>>, <<113>> }

VolumeKeys == { <<107>>, <<27, 91, 65>>, <<106>>, <<27, 91, 66>> }

ShuffleKeys == { <<115>>, <<106, 106>>, <<3>> }

RepeatKeys == { <<114>> }

SkipKeys == { <<108>>, <<27, 91, 67>>, <<104>>, <<27, 91, 68>> }

CycleKeys == { <<114>> }

KeysOf(f) ==
    CASE f = "track"  -> TrackKeys
      [] f = "play"   -> PlayKeys
      [] f = "volume" -> VolumeKeys
      [] f = "shuffle" -> ShuffleKeys
      [] f = "skip"   -> SkipKeys
      [] f = "cycle"  -> CycleKeys
      [] f = "seek"   -> {}
      [] f = "events" -> {}
      [] f = "keys"   -> { <<106 + (Len(keyLog) % 2)>> }
      [] f = "past"   -> PlayKeys
      [] OTHER        -> RepeatKeys

TrackStatuses ==
    { st \in Statuses : /\ st.Volume = 30
                        /\ ~st.ShuffleContext
                        /\ ~st.RepeatContext /\ ~st.RepeatTrack }

VolumeStatuses ==
    { st \in Statuses : /\ st.Paused /\ ~st.Stopped /\ st.hasTrack
                        /\ ~st.RepeatContext /\ ~st.RepeatTrack }

RepeatStatuses ==
    { st \in Statuses : /\ st.Paused /\ ~st.Stopped /\ st.hasTrack
                        /\ st.Volume = 30 /\ ~st.ShuffleContext }

IntakeStatuses == { Status(FALSE, TRUE, 30, FALSE, FALSE, FALSE, TRUE, TrackA, 3000) }

SeekStatuses == { st \in TrackStatuses : st.hasTrack /\ ~st.Stopped }

PlayStatuses == { st \in TrackStatuses : st.hasTrack }

StatusesOf(f) ==
    CASE f = "track"   -> TrackStatuses
      [] f = "play"    -> PlayStatuses
      [] f = "volume"  -> { st \in VolumeStatuses : ~st.ShuffleContext }
      [] f = "shuffle" -> { st \in VolumeStatuses : st.Volume = 30 }
      [] f = "seek"   -> SeekStatuses
      [] f \in IntakeFeeds -> IntakeStatuses
      [] OTHER        -> RepeatStatuses

\* how many inputs a run of feed f is fed
InputsOf(f) ==
    CASE f = "cycle"  -> CycleInputs
      [] f = "events" -> IntakeEvents
      [] f = "keys"   -> IntakeKeys
      [] OTHER        -> MaxInputs

\* the remote player's state is not tracked when any message may arrive
NoRemote == [playing |-> FALSE, tracked |-> FALSE]

----------------------------------------------------------------------------
(* main *)

\* what main handled last: kind is "none", "snapshot", "event", "tick", "key",
\* "signal" or "closed"; type is the event's type or the key's command; ok
\* is whether the payload decoded, the fetch succeeded, every call succeeded
Item(kind, type, ok) == [kind |-> kind, type |-> type, ok |-> ok]

\* the trail after main handled item it, which found the view s
Pushed(tr, it, s) ==
    LET all == Append(tr, [item |-> it, from |-> s])
    IN  IF Len(all) > TrailLen THEN Tail(all) ELSE all

\* the state before main runs, for a feed f and a remote player r
InitWith(f, r) ==
    /\ phase = "start"
    /\ exit = "none"
    /\ daemon = "notstarted"
    /\ state = InitialState
    /\ conn = "none"
    /\ wire = <<>>
    /\ reader = "none"
    /\ evCh = <<>>
    /\ evClosed = FALSE
    /\ keysCh = <<>>
    /\ pend = NoPend
    /\ http = NoRequest
    /\ remote = r
    /\ last = Item("none", "", TRUE)
    /\ trail = <<>>
    /\ skipped = 0
    /\ feed = f
    /\ evLog = <<>>
    /\ keyLog = <<>>
    /\ nInputs = 0

Init == \E f \in Feeds : InitWith(f, NoRemote)

\* os.Exit(1): the deferred calls do not run
OsExit ==
    /\ phase' = "exited"
    /\ exit' = "osexit"

\* main returns or panics: events.Close() and mgr.Stop() run, deferred
Unwind(how) ==
    /\ phase' = "exited"
    /\ exit' = how
    /\ conn' = IF conn \in {"open", "dropped"} THEN "closed" ELSE conn
    /\ daemon' = IF daemon = "running" THEN "stopped" ELSE daemon

\* render(state), then back to the select
RenderThenLoop(s) ==
    IF renderPanics(s)
    THEN Unwind("panic")
    ELSE /\ phase' = "loop"
         /\ UNCHANGED <<exit, conn, daemon>>

\* mgr.Start: it fails before the process is started, or starts it and
\* stops it again when the API does not answer, or succeeds
StartDaemon(res) ==
    /\ phase = "start"
    /\ CASE res = "ok"      -> /\ daemon' = "running"
                               /\ phase' = "connect"
                               /\ exit' = exit
          [] res = "nostart" -> /\ daemon' = daemon
                                /\ OsExit
          [] OTHER           -> /\ daemon' = "stopped"
                                /\ OsExit
    /\ UNCHANGED <<state, conn, wire, reader, evCh, evClosed, keysCh, pend, http,
                   remote, last, trail, skipped, feed, evLog, keyLog, nInputs>>

\* player.NewEventHandler and events.Start()
Connect(ok) ==
    /\ phase = "connect"
    /\ IF ok
       THEN /\ conn' = "open"
            /\ reader' = "reading"
            /\ phase' = "seed"
            /\ exit' = exit
       ELSE /\ OsExit
            /\ UNCHANGED <<conn, reader>>
    /\ UNCHANGED <<daemon, state, wire, evCh, evClosed, keysCh, pend, http,
                   remote, last, trail, skipped, feed, evLog, keyLog, nInputs>>

\* a mutant of SeedOk: /status is fetched again while the loop runs
SeedOkPolled(st) ==
    /\ phase \in {"seed", "loop"}
    /\ state' = applyStatus(state, st)
    /\ last' = Item("snapshot", "", TRUE)
    /\ trail' = Pushed(trail, last', state)
    /\ phase' = IF phase = "seed" THEN "raw" ELSE phase
    /\ UNCHANGED <<exit, daemon, conn, wire, reader, evCh, evClosed, keysCh, pend,
                   http, remote, skipped, feed, evLog, keyLog, nInputs>>

\* pc.Status() returned st: applyStatus(state, status)
SeedOk(st) ==
    /\ phase = "seed"
    /\ state' = applyStatus(state, st)
    /\ last' = Item("snapshot", "", TRUE)
    /\ trail' = Pushed(trail, last', state)
    /\ phase' = "raw"
    /\ UNCHANGED <<exit, daemon, conn, wire, reader, evCh, evClosed, keysCh, pend,
                   http, remote, skipped, feed, evLog, keyLog, nInputs>>

\* a mutant of seedFailed: the error ends the program
seedFailedFatal ==
    /\ OsExit
    /\ UNCHANGED <<conn, daemon>>

\* what main does when pc.Status() returned an error: nothing
seedFailed ==
    /\ phase' = "raw"
    /\ exit' = exit
    /\ UNCHANGED <<conn, daemon>>

SeedFails ==
    /\ phase = "seed"
    /\ seedFailed
    /\ last' = Item("snapshot", "", FALSE)
    /\ trail' = Pushed(trail, last', state)
    /\ UNCHANGED <<state, wire, reader, evCh, evClosed, keysCh, pend,
                   http, remote, skipped, feed, evLog, keyLog, nInputs>>

\* term.MakeRaw, go readKeys, and the first render(state)
MakeRaw(ok) ==
    /\ phase = "raw"
    /\ IF ok
       THEN RenderThenLoop(state)
       ELSE /\ OsExit
            /\ UNCHANGED <<conn, daemon>>
    /\ UNCHANGED <<state, wire, reader, evCh, evClosed, keysCh, pend, http,
                   remote, last, trail, skipped, feed, evLog, keyLog, nInputs>>

\* case <-sigChan
OnSignal ==
    /\ phase = "loop"
    /\ Unwind("return")
    /\ last' = Item("signal", "", TRUE)
    /\ trail' = Pushed(trail, last', state)
    /\ UNCHANGED <<state, wire, reader, evCh, evClosed, keysCh, pend, http,
                   remote, skipped, feed, evLog, keyLog, nInputs>>

\* a mutant of OnEvent: the newest buffered event is taken first
OnEventNewestFirst ==
    /\ phase = "loop"
    /\ evCh # <<>>
    /\ state' = applyEvent(state, evCh[Len(evCh)])
    /\ evCh' = SubSeq(evCh, 1, Len(evCh) - 1)
    /\ last' = Item("event", evCh[Len(evCh)].type, evCh[Len(evCh)].ok)
    /\ trail' = Pushed(trail, last', state)
    /\ RenderThenLoop(state')
    /\ UNCHANGED <<wire, reader, evClosed, keysCh, pend, http, remote, skipped,
                   feed, evLog, keyLog, nInputs>>

\* case ev, ok := <-events.Ch, with ok
OnEvent ==
    /\ phase = "loop"
    /\ evCh # <<>>
    /\ state' = applyEvent(state, Head(evCh))
    /\ evCh' = Tail(evCh)
    /\ last' = Item("event", Head(evCh).type, Head(evCh).ok)
    /\ trail' = Pushed(trail, last', state)
    /\ RenderThenLoop(state')
    /\ UNCHANGED <<wire, reader, evClosed, keysCh, pend, http, remote, skipped,
                   feed, evLog, keyLog, nInputs>>

\* a mutant of OnClosed: the closure is seen while events are still buffered
OnClosedDropsPending ==
    /\ phase = "loop"
    /\ evClosed
    /\ Unwind("return")
    /\ last' = Item("closed", "", TRUE)
    /\ trail' = Pushed(trail, last', state)
    /\ UNCHANGED <<state, wire, reader, evCh, evClosed, keysCh, pend, http,
                   remote, skipped, feed, evLog, keyLog, nInputs>>

\* case ev, ok := <-events.Ch, with !ok
OnClosed ==
    /\ phase = "loop"
    /\ evCh = <<>>
    /\ evClosed
    /\ Unwind("return")
    /\ last' = Item("closed", "", TRUE)
    /\ trail' = Pushed(trail, last', state)
    /\ UNCHANGED <<state, wire, reader, evCh, evClosed, keysCh, pend, http,
                   remote, skipped, feed, evLog, keyLog, nInputs>>

\* a mutant of OnTick: the tick is applied by a goroutine of its own, also
\* while handleKey waits in a call
OnTickConcurrent ==
    /\ phase \in {"loop", "request"}
    /\ state' = tick(state)
    /\ last' = Item("tick", "", TRUE)
    /\ trail' = Pushed(trail, last', state)
    /\ UNCHANGED <<phase, exit, conn, daemon>>
    /\ UNCHANGED <<wire, reader, evCh, evClosed, keysCh, pend, http, remote,
                   skipped, feed, evLog, keyLog, nInputs>>

\* case <-ticker.C
OnTick ==
    /\ phase = "loop"
    /\ state' = tick(state)
    /\ last' = Item("tick", "", TRUE)
    /\ trail' = Pushed(trail, last', state)
    /\ RenderThenLoop(state')
    /\ UNCHANGED <<wire, reader, evCh, evClosed, keysCh, pend, http, remote,
                   skipped, feed, evLog, keyLog, nInputs>>

\* case key := <-keysCh: handleKey up to its first call on pc, or to its
\* end when the chunk makes none
OnKey ==
    /\ phase = "loop"
    /\ keysCh # <<>>
    /\ keysCh' = Tail(keysCh)
    /\ LET cmd  == keyCommand(Head(keysCh))
           reqs == keyRequests(cmd, state)
       IN  CASE cmd = "quit" ->
                    /\ Unwind("return")
                    /\ last' = Item("key", cmd, TRUE)
                    /\ trail' = Pushed(trail, last', state)
                    /\ UNCHANGED <<state, pend, http>>
             [] cmd # "quit" /\ reqs = <<>> ->
                    /\ state' = handleKeyDone(cmd, state, FALSE)
                    /\ last' = Item("key", cmd, TRUE)
                    /\ trail' = Pushed(trail, last', state)
                    /\ RenderThenLoop(state')
                    /\ UNCHANGED <<pend, http>>
             [] OTHER ->
                    /\ pend' = [cmd |-> cmd, reqs |-> reqs, failed |-> FALSE]
                    /\ http' = Head(reqs)
                    /\ phase' = "request"
                    /\ UNCHANGED <<state, last, trail, exit, conn, daemon>>
    /\ UNCHANGED <<wire, reader, evCh, evClosed, remote, skipped,
                   feed, evLog, keyLog, nInputs>>

\* the call on pc that handleKey waits in returns, with or without an error:
\* handleKey makes its next call, or assigns to *state and returns to main,
\* which renders
requestReturned(ok) ==
    /\ phase = "request"
    /\ LET rest   == Tail(pend.reqs)
           failed == pend.failed \/ ~ok
       IN  IF rest # <<>>
           THEN /\ pend' = [pend EXCEPT !.reqs = rest, !.failed = failed]
                /\ http' = Head(rest)
                /\ UNCHANGED <<phase, state, last, trail, exit, conn, daemon>>
           ELSE /\ pend' = NoPend
                /\ http' = NoRequest
                /\ state' = handleKeyDone(pend.cmd, state, failed)
                /\ last' = Item("key", pend.cmd, ~failed)
                /\ trail' = Pushed(trail, last', state)
                /\ RenderThenLoop(state')
    /\ UNCHANGED <<reader, evCh, evClosed, keysCh, skipped, feed, evLog, keyLog, nInputs>>

\* the same, the remote player's side left out of account
RequestReturns(ok) ==
    /\ requestReturned(ok)
    /\ UNCHANGED <<wire, remote>>

----------------------------------------------------------------------------
(* The goroutine of EventHandler.Start *)

\* json.Unmarshal(msg, &ev) returned an error: continue
readerSkips ==
    /\ skipped' = skipped + 1
    /\ UNCHANGED <<reader, evClosed>>

\* a mutant of ReadMessage: the send does not wait, an event that finds
\* h.Ch full is dropped
ReadMessageDropsWhenFull ==
    /\ phase # "exited"
    /\ reader = "reading"
    /\ wire # <<>>
    /\ wire' = Tail(wire)
    /\ IF Head(wire).wf
       THEN /\ evCh' = IF Len(evCh) < EventCap THEN Append(evCh, Head(wire)) ELSE evCh
            /\ evLog' = Append(evLog, Head(wire))
            /\ UNCHANGED <<reader, evClosed, skipped>>
       ELSE /\ evCh' = evCh
            /\ evLog' = evLog
            /\ readerSkips
    /\ UNCHANGED <<phase, exit, daemon, state, conn, keysCh, pend,
                   http, remote, last, trail, feed, keyLog, nInputs>>

\* h.conn.ReadMessage() returned a message: one that is not an Event is
\* skipped, any other is sent to h.Ch (the send waits while h.Ch is full)
ReadMessage ==
    /\ phase # "exited"
    /\ reader = "reading"
    /\ wire # <<>>
    /\ wire' = Tail(wire)
    /\ IF Head(wire).wf
       THEN /\ Len(evCh) < EventCap
            /\ evCh' = Append(evCh, Head(wire))
            /\ evLog' = Append(evLog, Head(wire))
            /\ UNCHANGED <<reader, evClosed, skipped>>
       ELSE /\ evCh' = evCh
            /\ evLog' = evLog
            /\ readerSkips
    /\ UNCHANGED <<phase, exit, daemon, state, conn, keysCh, pend,
                   http, remote, last, trail, feed, keyLog, nInputs>>

\* h.conn.ReadMessage() returned an error: close(h.Ch), deferred
ReadFails ==
    /\ phase # "exited"
    /\ reader = "reading"
    /\ conn = "dropped"
    /\ wire = <<>>
    /\ reader' = "exited"
    /\ evClosed' = TRUE
    /\ UNCHANGED <<phase, exit, daemon, state, conn, wire, evCh, keysCh, pend,
                   http, remote, last, trail, skipped, feed, evLog, keyLog, nInputs>>

----------------------------------------------------------------------------
(* readKeys *)

\* os.Stdin.Read returned a chunk, which is sent to keysCh
ReadKey(key) ==
    /\ phase \in {"loop", "request"}
    /\ nInputs < InputsOf(feed)
    /\ Len(keysCh) < KeysCap
    /\ keysCh' = Append(keysCh, key)
    /\ keyLog' = Append(keyLog, key)
    /\ nInputs' = nInputs + 1
    /\ UNCHANGED <<phase, exit, daemon, state, conn, wire, reader, evCh, evClosed,
                   pend, http, remote, last, trail, skipped, feed, evLog>>

----------------------------------------------------------------------------
(* The remote player, as seen from the connection *)

\* the player writes a message to the connection
RemoteWrites(msg) ==
    /\ phase # "exited"
    /\ conn = "open"
    /\ nInputs < InputsOf(feed)
    /\ wire' = Append(wire, msg)
    /\ nInputs' = nInputs + 1
    /\ UNCHANGED <<phase, exit, daemon, state, conn, reader, evCh, evClosed, keysCh,
                   pend, http, remote, last, trail, skipped, feed, evLog, keyLog>>

\* the connection drops
ConnDrops ==
    /\ phase # "exited"
    /\ conn = "open"
    /\ conn' = "dropped"
    /\ UNCHANGED <<phase, exit, daemon, state, wire, reader, evCh, evClosed, keysCh,
                   pend, http, remote, last, trail, skipped, feed, evLog, keyLog, nInputs>>

Next ==
    \/ \E res \in {"ok", "nostart", "notready"} : StartDaemon(res)
    \/ \E ok \in BOOLEAN : Connect(ok)
    \/ \E st \in StatusesOf(feed) : SeedOk(st)
    \/ SeedFails
    \/ \E ok \in BOOLEAN : MakeRaw(ok)
    \/ OnSignal
    \/ OnEvent
    \/ OnClosed
    \/ OnTick
    \/ OnKey
    \/ \E ok \in BOOLEAN : RequestReturns(ok)
    \/ ReadMessage
    \/ ReadFails
    \/ \E key \in KeysOf(feed) : ReadKey(key)
    \/ \E msg \in MessagesOf(feed) : RemoteWrites(msg)
    \/ ConnDrops

Spec == Init /\ [][Next]_vars

\* the runs that fill events.Ch or keysCh
InitIntake == \E f \in IntakeFeeds : InitWith(f, NoRemote)

SpecIntake == InitIntake /\ [][Next]_vars

----------------------------------------------------------------------------
(* The remote player as a well-behaved daemon: it keeps its own play       *)
(* state, answers /status from it, and writes a playing or paused event    *)
(* when, and only when, that state changes.                                *)

Player(playing) == [playing |-> playing, tracked |-> TRUE]

\* what GET /status answers
PlayerStatus(r) ==
    Status(FALSE, ~r.playing, 30, FALSE, FALSE, FALSE, TRUE, TrackA, 3000)

\* the event the player writes after its play state became playing
PlayEvent(playing) ==
    Message(IF playing THEN "playing" ELSE "paused", TRUE, NoData)

\* the player's state after it carried a request out
playerApply(r, req) ==
    IF req.op = "playpause" THEN [r EXCEPT !.playing = ~r.playing] ELSE r

\* the player answers the request main waits for: when it carried the
\* request out its state changes and it writes the event; when the request
\* failed nothing changes and nothing is written
PlayerAnswers(ok) ==
    /\ requestReturned(ok)
    /\ remote' = IF ok THEN playerApply(remote, http) ELSE remote
    /\ wire' = IF ok /\ conn = "open" /\ playerApply(remote, http) # remote
               THEN Append(wire, PlayEvent(~remote.playing))
               ELSE wire

\* another controller starts or pauses playback
PlayerChanges ==
    /\ phase # "exited"
    /\ conn = "open"
    /\ nInputs < InputsOf(feed)
    /\ remote' = [remote EXCEPT !.playing = ~remote.playing]
    /\ wire' = Append(wire, PlayEvent(~remote.playing))
    /\ nInputs' = nInputs + 1
    /\ UNCHANGED <<phase, exit, daemon, state, conn, reader, evCh, evClosed, keysCh,
                   pend, http, last, trail, skipped, feed, evLog, keyLog>>

InitPlayer == \E b \in BOOLEAN : InitWith("player", Player(b))

NextPlayer ==
    \/ \E res \in {"ok", "nostart", "notready"} : StartDaemon(res)
    \/ \E ok \in BOOLEAN : Connect(ok)
    \/ SeedOk(PlayerStatus(remote))
    \/ SeedFails
    \/ \E ok \in BOOLEAN : MakeRaw(ok)
    \/ OnSignal
    \/ OnEvent
    \/ OnClosed
    \/ OnTick
    \/ OnKey
    \/ \E ok \in BOOLEAN : PlayerAnswers(ok)
    \/ PlayerChanges
    \/ ReadMessage
    \/ ReadFails
    \/ ReadKey(<<32>>)
    \/ ConnDrops

\* main's select takes a case that stays ready, the reader goroutine runs,
\* and a call on pc returns (the client times out after 5 seconds)
PlayerFairness ==
    /\ WF_vars(OnEvent)
    /\ WF_vars(OnClosed)
    /\ WF_vars(OnTick)
    /\ WF_vars(OnKey)
    /\ WF_vars(ReadMessage)
    /\ WF_vars(ReadFails)
    /\ WF_vars(\E ok \in BOOLEAN : PlayerAnswers(ok))

SpecPlayer == InitPlayer /\ [][NextPlayer]_vars /\ PlayerFairness

\* main's startup runs on: pc.Status() returns within the client's timeout
\* and term.MakeRaw returns
StartupFairness ==
    /\ WF_vars(SeedOk(PlayerStatus(remote)) \/ SeedFails)
    /\ WF_vars(\E ok \in BOOLEAN : MakeRaw(ok))

SpecPlayerFair ==
    InitPlayer /\ [][NextPlayer]_vars /\ PlayerFairness /\ StartupFairness

----------------------------------------------------------------------------
(* Steps of main, told apart by what they take *)

\* main takes an event from events.Ch
EventStep == Len(evCh') < Len(evCh)

\* the event an EventStep applies
TakenEvent == Head(evCh)

\* the ticker case ran
TickStep == last'.kind = "tick" /\ (last.kind # "tick" \/ state' # state)

\* handleKey returns to main after its last call on pc
KeyDoneStep == phase = "request" /\ phase' # "request"

\* the reader takes a message off the connection
ReaderStep == Len(wire') < Len(wire)

----------------------------------------------------------------------------
(* C1: after every transition, 0 <= progress <= totalDuration, also after  *)
(* a metadata or seek event whose position is negative or past its         *)
(* duration.                                                               *)
C1_ProgressWithinDuration ==
    0 <= state.progress /\ state.progress <= state.duration

(* C2: the volume of the view is in [0,100] in every reachable state,      *)
(* whatever value a volume event or the snapshot carries.                  *)
C2_VolumeInRange == state.volume \in 0..100

(* C3: a Tick changes nothing when isPlaying is false or stopped is true,  *)
(* and otherwise adds one second to progress, clamped to totalDuration,    *)
(* and changes no other field.                                             *)
C3_TickEffect ==
    [][ TickStep =>
          IF state.isPlaying /\ ~state.stopped
          THEN state' = [state EXCEPT !.progress =
                            IF state.progress + 1000 > state.duration
                            THEN state.duration
                            ELSE state.progress + 1000]
          ELSE state' = state ]_vars

\* a Tick has advanced a playing track, and has met the clamp
C3_Witness ==
    /\ last.kind = "tick"
    /\ state.isPlaying /\ ~state.stopped
    /\ state.progress = state.duration
    /\ state.duration = 3000
    /\ state.trackName = "A"

(* C4: a push message that cannot be decoded, or whose payload cannot, or *)
(* whose type is unknown, changes nothing in the view; the reader reads    *)
(* on and main stays in its loop; for every type, playing, paused and      *)
(* stopped included.                                                       *)
C4_BadMessageNoUpdate ==
    [][ /\ (ReaderStep /\ ~Head(wire).wf) =>
              /\ state' = state /\ evCh' = evCh
              /\ reader' = "reading" /\ phase' = phase
        /\ (EventStep /\ (~TakenEvent.ok \/ TakenEvent.type = UnknownType)) =>
              /\ state' = state
              /\ phase' = "loop" /\ reader' = reader ]_vars

(* C4 as amended: the same for a message that cannot be decoded, for an    *)
(* unknown type, and for a payload that cannot be decoded of the types     *)
(* whose payload is decoded (metadata, seek, volume, shuffle_context,      *)
(* repeat_context, repeat_track); a playing, paused or stopped message is  *)
(* applied whatever its payload is.                                        *)
C4_BadDecodedNoUpdate ==
    [][ /\ (ReaderStep /\ ~Head(wire).wf) =>
              /\ state' = state /\ evCh' = evCh
              /\ reader' = "reading" /\ phase' = phase
        /\ (EventStep /\ \/ TakenEvent.type \in DecodedTypes /\ ~TakenEvent.ok
                         \/ TakenEvent.type \notin DecodedTypes \cup PlainTypes) =>
              /\ state' = state
              /\ phase' = "loop" /\ reader' = reader
        /\ (EventStep /\ TakenEvent.type \in PlainTypes) =>
              /\ state'.isPlaying = (TakenEvent.type = "playing")
              /\ state'.stopped = CASE TakenEvent.type = "playing" -> FALSE
                                    [] TakenEvent.type = "stopped" -> TRUE
                                    [] OTHER -> state.stopped ]_vars

\* the reader has skipped a message, main has taken a volume event whose
\* payload does not decode, and both go on
C4_Witness ==
    /\ skipped = 1
    /\ last = Item("event", "volume", FALSE)
    /\ phase = "loop"
    /\ reader = "reading"

(* C5: handling the space key flips isPlaying; when the item main handles  *)
(* next is a paused event, isPlaying is false after it, whichever way the  *)
(* flip went, and true after a playing event.                              *)
C5_ToggleThenAuthoritative ==
    [][ /\ (KeyDoneStep /\ pend.cmd = "playpause") =>
              state'.isPlaying = ~state.isPlaying
        /\ (EventStep /\ last.kind = "key" /\ last.type = "playpause"
                      /\ TakenEvent.type = "paused") => ~state'.isPlaying
        /\ (EventStep /\ last.kind = "key" /\ last.type = "playpause"
                      /\ TakenEvent.type = "playing") => state'.isPlaying ]_vars

\* the flip has set isPlaying, and a paused event is the next in events.Ch
C5_Witness ==
    /\ last.kind = "key" /\ last.type = "playpause"
    /\ state.isPlaying
    /\ phase = "loop"
    /\ evCh # <<>>
    /\ Head(evCh).type = "paused"

(* C6: while a control request is outstanding main is not held up: it is   *)
(* back at its select with the command's assignment made.                  *)
C6_CommandNeverBlocks ==
    http # NoRequest => (phase = "loop" /\ pend = NoPend)

\* what each command leaves in the view
C7_Expected(cmd, s) ==
    CASE cmd = "playpause" -> [s EXCEPT !.isPlaying = ~s.isPlaying]
      [] cmd = "volup"     -> [s EXCEPT !.volume =
                                  IF s.volume + 5 > 100 THEN 100 ELSE s.volume + 5]
      [] cmd = "voldown"   -> [s EXCEPT !.volume =
                                  IF s.volume - 5 < 0 THEN 0 ELSE s.volume - 5]
      [] cmd = "shuffle"   -> [s EXCEPT !.shuffle = ~s.shuffle]
      [] cmd = "repeat"    -> [s EXCEPT !.repeat =
                                  CASE s.repeat = "off" -> "context"
                                    [] s.repeat = "context" -> "track"
                                    [] OTHER -> "off"]
      [] OTHER             -> s

(* C7: the view after a command is the same whether its requests succeeded *)
(* or failed: no rollback, no request sent again, no crash, and main stays *)
(* in its loop.                                                            *)
C7_OutcomeIndependent ==
    [][ /\ KeyDoneStep =>
              /\ state' = C7_Expected(pend.cmd, state)
              /\ phase' = "loop" /\ exit' = "none"
              /\ http' = NoRequest
        /\ (phase = "request" /\ phase' = "request" /\ pend' # pend) =>
              /\ pend'.reqs = Tail(pend.reqs)
              /\ http' = Head(pend'.reqs)
              /\ state' = state ]_vars

\* the request of a volume-down failed, and the view holds the lowered volume
C7_Witness ==
    /\ last = Item("key", "voldown", FALSE)
    /\ state.volume = 25
    /\ phase = "loop"

(* C8: after a TogglePlayPause whose request failed, the view's isPlaying  *)
(* equals the remote player's play state again at some later time, as long *)
(* as the program runs.                                                    *)
C8_SelfHeals ==
    [] ( (last = Item("key", "playpause", FALSE) /\ state.isPlaying # remote.playing)
            => <> (state.isPlaying = remote.playing \/ phase = "exited") )

(* C9: when the fetch of /status fails at startup the program ends; main   *)
(* never enters its loop with a view that was not seeded.                  *)
C9_SnapshotFailureFatal ==
    (last.kind = "snapshot" /\ ~last.ok) => phase \notin {"raw", "loop", "request"}

(* C9 as amended: when the fetch of /status fails at startup the failure   *)
(* is not fatal: the view keeps its defaults and main goes on to set the   *)
(* terminal up and to enter its loop.                                      *)
C9_SnapshotFailureIgnored ==
    [][ (phase = "seed" /\ last'.kind = "snapshot" /\ ~last'.ok) =>
            /\ state' = InitialState
            /\ phase' = "raw"
            /\ exit' = "none" ]_vars

\* main is in its loop with the default view after a failed fetch
C9_Witness ==
    /\ last = Item("snapshot", "", FALSE)
    /\ phase = "loop"
    /\ state = InitialState

(* C10: the snapshot is applied at most once and only as the first item:   *)
(* no step applies it after an event, a tick or a key was handled.         *)
C10_SeedOnce ==
    [][ (last'.kind = "snapshot" /\ last'.ok /\ (last' # last \/ state' # state)) =>
            (last.kind = "none" /\ phase = "seed") ]_vars

\* the view was seeded (volume 30 comes from /status alone in this feed) and
\* an event has changed it since
C10_Witness ==
    /\ feed = "track"
    /\ state.volume = 30
    /\ last = Item("event", "seek", TRUE)
    /\ state.progress = 2000
    /\ phase = "loop"

(* C11: when the connection drops the reader closes events.Ch once, for    *)
(* good, and sends nothing afterwards; main sees the closure only when     *)
(* every buffered event has been taken and applied, and then returns; and  *)
(* a dropped connection leads to the end of the program.                   *)
C11_ClosedThenLeaves ==
    /\ [][ /\ evClosed => (evClosed' /\ evLog' = evLog /\ Len(evCh') <= Len(evCh))
           /\ (~evClosed /\ evClosed') => (conn = "dropped" /\ reader' = "exited")
           /\ (last'.kind = "closed" /\ last.kind # "closed")
                 => (/\ evClosed /\ evCh = <<>>
                     /\ phase' = "exited" /\ exit' = "return"
                     /\ state' = state)
           /\ EventStep => state' = applyEvent(state, TakenEvent) ]_vars
    /\ (conn = "dropped") ~> (phase = "exited")

\* main left on the closure after it had applied an event the reader sent
C11_Witness ==
    /\ last.kind = "closed"
    /\ phase = "exited"
    /\ reader = "exited"
    /\ Len(evLog) > 0
    /\ Len(trail) >= 2
    /\ trail[Len(trail) - 1].item.kind = "event"

\* main applied a seek event that left progress 90000 ms of 200000 ms, and
\* then handled two ticks
SeekThenTwoTicks ==
    /\ Len(trail) = 3
    /\ trail[1].item = Item("event", "seek", TRUE)
    /\ trail[2].item.kind = "tick"
    /\ trail[3].item.kind = "tick"
    /\ trail[2].from.progress = 90000
    /\ trail[2].from.duration = 200000

(* C12: a seek to 90000 ms of 200000 ms followed by two ticks leaves       *)
(* progress at 92000 ms.                                                   *)
C12_SeekThenTicks == SeekThenTwoTicks => state.progress = 92000

(* C12, amended: a seek to 90000 ms of 200000 ms followed by two ticks     *)
(* leaves progress at 92000 ms when the view is playing and not stopped,   *)
(* and at 90000 ms otherwise.                                              *)
C12_SeekThenTicksWhilePlaying ==
    SeekThenTwoTicks =>
        state.progress = IF trail[2].from.isPlaying /\ ~trail[2].from.stopped
                         THEN 92000 ELSE 90000

\* the seek and the two ticks happened while the view was playing
C12_Witness ==
    /\ SeekThenTwoTicks
    /\ trail[2].from.isPlaying /\ ~trail[2].from.stopped
    /\ state.progress = 92000

(* C13: a metadata event whose payload decodes replaces the track's name,  *)
(* artists, album and duration, sets progress to the payload's position    *)
(* and clears stopped, whatever the view was; isPlaying, shuffle, repeat   *)
(* and volume stay as they are.                                            *)
C13_MetadataResets ==
    [][ (EventStep /\ TakenEvent.type = "metadata" /\ TakenEvent.ok) =>
          /\ state'.trackName = TakenEvent.d.name
          /\ state'.artistNames = joinStrings(TakenEvent.d.artistNames)
          /\ state'.albumName = TakenEvent.d.albumName
          /\ state'.duration = TakenEvent.d.duration
          /\ state'.progress = TakenEvent.d.position
          /\ ~state'.stopped
          /\ state'.isPlaying = state.isPlaying
          /\ state'.shuffle = state.shuffle
          /\ state'.repeat = state.repeat
          /\ state'.volume = state.volume ]_vars

\* a metadata event was applied right after a tick that had advanced
\* progress, and the progress it left is its own position
C13_Witness ==
    /\ last = Item("event", "metadata", TRUE)
    /\ Len(trail) >= 2
    /\ trail[Len(trail) - 1].item.kind = "tick"
    /\ trail[Len(trail)].from.progress
          = trail[Len(trail) - 1].from.progress + Second
    /\ state.progress # trail[Len(trail)].from.progress
    /\ state.trackName = "A"
    /\ state.progress = 1500

\* the values of state.repeat
RepeatModes == {"off", "context", "track"}

\* the item main handled last was a repeat_context event that found
\* repeat off and left it context
ContextSetFromOff ==
    /\ last = Item("event", "repeat_context", TRUE)
    /\ trail[Len(trail)].from.repeat = "off"
    /\ state.repeat = "context"

(* C14: from repeat off, a repeat_context event with value true followed   *)
(* by a repeat_track event with value true leaves repeat at track, and     *)
(* repeat is one of off, context and track in every state.                 *)
C14_ContextThenTrack ==
    /\ [](state.repeat \in RepeatModes)
    /\ [][ (ContextSetFromOff /\ EventStep /\ TakenEvent = Bool("repeat_track", TRUE))
              => state'.repeat = "track" ]_vars

\* the two events were applied one after the other, starting from off
C14_Witness ==
    /\ last = Item("event", "repeat_track", TRUE)
    /\ state.repeat = "track"
    /\ Len(trail) >= 2
    /\ trail[Len(trail) - 1].item = Item("event", "repeat_context", TRUE)
    /\ trail[Len(trail) - 1].from.repeat = "off"
    /\ trail[Len(trail)].from.repeat = "context"

\* the cycle off -> context -> track -> off
CycleNext(mode) ==
    CASE mode = "off"     -> "context"
      [] mode = "context" -> "track"
      [] mode = "track"   -> "off"

\* main takes a chunk from keysCh
KeyTaken == Len(keysCh') < Len(keysCh)

\* the three items main handled last are repeat keys
ThreeRepeatKeys ==
    /\ Len(trail) = 3
    /\ \A i \in 1..3 : trail[i].item.kind = "key" /\ trail[i].item.type = "repeat"

(* C15: a repeat key moves repeat one step along off -> context -> track   *)
(* -> off, whether its requests succeed or fail; three repeat keys handled *)
(* one after the other with nothing in between leave repeat where it was   *)
(* before the first; and no other key changes repeat.                      *)
C15_CycleRepeat ==
    /\ [](ThreeRepeatKeys => state.repeat = trail[1].from.repeat)
    /\ [][ /\ (KeyDoneStep /\ pend.cmd = "repeat")
                 => state'.repeat = CycleNext(state.repeat)
           /\ (KeyDoneStep /\ pend.cmd # "repeat")
                 => state'.repeat = state.repeat
           /\ KeyTaken => state'.repeat = state.repeat ]_vars

\* three repeat keys in a row took repeat from off back to off
C15_Witness ==
    /\ ThreeRepeatKeys
    /\ trail[1].from.repeat = "off"
    /\ trail[2].from.repeat = "context"
    /\ trail[3].from.repeat = "track"
    /\ state.repeat = "off"

(* C16: a repeat_context event with value false sets repeat to off only    *)
(* when repeat is context, a repeat_track event with value false only when *)
(* repeat is track; a false for the mode the view is not in changes        *)
(* nothing.                                                                *)
C16_FalseResetsOwnMode ==
    [][ /\ (EventStep /\ TakenEvent = Bool("repeat_context", FALSE))
              => state' = IF state.repeat = "context"
                          THEN [state EXCEPT !.repeat = "off"] ELSE state
        /\ (EventStep /\ TakenEvent = Bool("repeat_track", FALSE))
              => state' = IF state.repeat = "track"
                          THEN [state EXCEPT !.repeat = "off"] ELSE state ]_vars

\* a repeat_context event with value false was applied while repeat was
\* track, and repeat is still track
C16_Witness ==
    /\ last = Item("event", "repeat_context", TRUE)
    /\ trail[Len(trail)].from.repeat = "track"
    /\ state.repeat = "track"

\* the fields of the view a step changes
Changed == { f \in DOMAIN InitialState : state'[f] # state[f] }

\* the fields an event of a type may change
OwnFields(type) ==
    CASE type \in PlainTypes                         -> {"isPlaying", "stopped"}
      [] type = "volume"                             -> {"volume"}
      [] type = "shuffle_context"                    -> {"shuffle"}
      [] type \in {"repeat_context", "repeat_track"} -> {"repeat"}
      [] OTHER                                       -> DOMAIN InitialState

(* C17: a playing, paused or stopped event changes no field but isPlaying  *)
(* and stopped; a volume, shuffle_context, repeat_context or repeat_track  *)
(* event changes no field but volume, shuffle, repeat and repeat.          *)
C17_EventFrame ==
    [][ EventStep => Changed \subseteq OwnFields(TakenEvent.type) ]_vars

\* a stopped event was applied to a playing view that shows a track with
\* progress, and track and progress are as they were
C17_Witness ==
    /\ last.kind = "event" /\ last.type = "stopped"
    /\ trail[Len(trail)].from.isPlaying
    /\ ~state.isPlaying /\ state.stopped
    /\ state.trackName # ""
    /\ state.progress > 0
    /\ state.progress = trail[Len(trail)].from.progress

\* the last n elements of a sequence
Suffix(seq, n) == SubSeq(seq, Len(seq) - n + 1, Len(seq))

\* what is buffered is the part of what was sent that main has not taken
Pending ==
    /\ Len(evCh) <= Len(evLog)
    /\ evCh = Suffix(evLog, Len(evCh))
    /\ Len(keysCh) <= Len(keyLog)
    /\ keysCh = Suffix(keyLog, Len(keysCh))

\* the command main is handling or has just handled
CommandNow == IF phase' = "request" THEN pend'.cmd ELSE last'.type

(* C18: the reader sends the events to events.Ch in the order it read them *)
(* from the connection, and main applies them in that order: the event it  *)
(* applies is always the oldest one sent and not yet applied.  The key     *)
(* chunks are handled in the order readKeys read them.                     *)
C18_SourceOrder ==
    /\ []Pending
    /\ [][ /\ (ReaderStep /\ Head(wire).wf)
                 => (evLog' = Append(evLog, Head(wire)) /\ evCh' = Append(evCh, Head(wire)))
           /\ EventStep
                 => /\ TakenEvent = evLog[Len(evLog) - Len(evCh) + 1]
                    /\ state' = applyEvent(state, TakenEvent)
                    /\ evCh' = Tail(evCh)
                    /\ last' = Item("event", TakenEvent.type, TakenEvent.ok)
           /\ KeyTaken
                 => /\ Head(keysCh) = keyLog[Len(keyLog) - Len(keysCh) + 1]
                    /\ CommandNow = keyCommand(Head(keysCh))
                    /\ keysCh' = Tail(keysCh) ]_vars

\* two different events were read, sent and applied, the older one first
C18_Witness ==
    /\ Len(evLog) = 2
    /\ evLog[1].type # evLog[2].type
    /\ evCh = <<>>
    /\ Len(trail) >= 2
    /\ trail[Len(trail) - 1].item = Item("event", evLog[1].type, evLog[1].ok)
    /\ trail[Len(trail)].item = Item("event", evLog[2].type, evLog[2].ok)

\* a step of the goroutine of EventHandler.Start
EventReaderStep ==
    /\ reader = "reading"
    /\ ReaderStep \/ reader' # reader \/ evLog' # evLog \/ evClosed' # evClosed

\* a step of readKeys
KeyReaderStep == keyLog' # keyLog

(* C19: only main writes the view, one item at a time: a step of the event *)
(* reader or of the key reader leaves the view and main's position as they *)
(* are and takes nothing from a channel; main takes an event, a tick or a  *)
(* chunk only in its select, never while handleKey is still waiting in a   *)
(* call, and while it waits there the view does not change.                *)
C19_SingleWriter ==
    [][ /\ (EventReaderStep \/ KeyReaderStep)
              => /\ state' = state /\ phase' = phase
                 /\ last' = last /\ trail' = trail /\ pend' = pend
                 /\ Len(evCh') >= Len(evCh) /\ Len(keysCh') >= Len(keysCh)
        /\ (EventStep \/ KeyTaken \/ TickStep) => phase = "loop"
        /\ state' # state
              => /\ phase \in {"seed", "loop", "request"}
                 /\ trail' = Pushed(trail, last', state)
        /\ (phase = "request" /\ phase' = "request")
              => (state' = state /\ trail' = trail)
        /\ (phase = "request" /\ state' # state)
              => (last'.kind = "key" /\ last'.type = pend.cmd) ]_vars

\* an event waits in events.Ch while handleKey waits in a call on pc
C19_Witness ==
    /\ phase = "request"
    /\ evCh # <<>>
    /\ state.isPlaying /\ ~state.stopped

(* C20: events.Ch never holds more than 32 events and keysCh never more    *)
(* than 16 chunks; a sender that finds its channel full waits, keeping     *)
(* what it has read; and what a channel holds is always exactly what was   *)
(* sent to it and not yet taken by main, which takes the oldest first:     *)
(* nothing is dropped or overwritten.                                      *)
C20_BoundedLossless ==
    /\ [](Len(evCh) <= EventCap /\ Len(keysCh) <= KeysCap /\ Pending)
    /\ [][ /\ (Len(evCh) = EventCap /\ wire # <<>> /\ Head(wire).wf)
                 => (evLog' = evLog /\ wire' # <<>> /\ Head(wire') = Head(wire))
           /\ Len(keysCh) = KeysCap => keyLog' = keyLog
           /\ Len(evCh') < Len(evCh)
                 => (evCh' = Tail(evCh) /\ state' = applyEvent(state, Head(evCh)))
           /\ Len(keysCh') < Len(keysCh)
                 => (keysCh' = Tail(keysCh) /\ CommandNow = keyCommand(Head(keysCh))) ]_vars

\* the reader waited with its 33rd event until main had taken the first,
\* and then sent it: events.Ch is full again
C20_Witness ==
    /\ Len(evLog) = EventCap + 1
    /\ Len(evCh) = EventCap
    /\ evCh[EventCap] = Volume(EventCap)
    /\ last = Item("event", "volume", TRUE)
    /\ state.volume = 0

----------------------------------------------------------------------------
(* The producers when main has left its loop.  main returns at line 471,   *)
(* 478 or 504; its deferred calls then run (ticker.Stop, term.Restore,     *)
(* events.Close, mgr.Stop, which waits up to 3 seconds for the daemon),    *)
(* and the process ends.  phase = "exited" with exit = "return" is the     *)
(* state in which those calls have run.                                    *)

\* main has left the select loop by a return
ConsumerGone == phase = "exited" /\ exit = "return"

\* the goroutine of readKeys: started at line 455, it returns only when
\* os.Stdin.Read fails; nothing in main closes stdin or tells it to stop
keyReader ==
    IF phase \in {"loop", "request"} \/ (phase = "exited" /\ exit # "osexit")
    THEN "reading"
    ELSE "none"

\* the goroutine of EventHandler.Start has not returned
eventReaderAlive == reader = "reading"

(* C21: once main has left its loop after a shutdown signal or the quit    *)
(* command, no producer is still alive: neither the event reader nor the   *)
(* key reader; a state with the consumer gone and a producer still         *)
(* running is unreachable.                                                 *)
C21_NoProducerOutlivesConsumer ==
    ConsumerGone => ~eventReaderAlive /\ keyReader # "reading"

----------------------------------------------------------------------------
(* The view main creates: &appState{repeat: "off"} at line 439              *)

\* main has not called pc.Status() yet: the view is as it was created
ViewFresh == phase \in {"start", "connect", "seed"}

(* C22: the view is created at startup with stopped = true and             *)
(* repeatMode = off.                                                       *)
C22_CreatedStopped ==
    ViewFresh => state.stopped = TRUE /\ state.repeat = "off"

\* C22, amended: the view is created with stopped = false and repeatMode = off
C22_CreatedNotStopped ==
    ViewFresh => state.stopped = FALSE /\ state.repeat = "off"

\* the view has been created and nothing has been applied to it yet
C22_Witness ==
    /\ phase = "seed"
    /\ trail = <<>>
    /\ state.stopped = FALSE
    /\ state.repeat = "off"

\* every field of a view has its default value
IsDefaults(s) ==
    /\ ~s.isPlaying /\ ~s.stopped /\ ~s.shuffle
    /\ s.repeat = "off"
    /\ s.volume = 0
    /\ s.progress = 0
    /\ s.duration = 0
    /\ s.trackName = "" /\ s.artistNames = <<>> /\ s.albumName = ""

\* the snapshot fetch failed and main has handled nothing since
SeedJustFailed == last.kind = "snapshot" /\ ~last.ok

(* C23: before the first snapshot or event is applied the view has         *)
(* isPlaying, stopped and shuffle false, repeatMode off, volume 0,         *)
(* progress 0 and no track; and when the snapshot fetch fails, the first   *)
(* event, tick or key is processed on exactly these defaults.              *)
C23_DefaultsUntilFirstInput ==
    /\ ViewFresh => IsDefaults(state)
    /\ SeedJustFailed => IsDefaults(state)
    /\ \A i \in 1..(Len(trail) - 1) :
          (trail[i].item.kind = "snapshot" /\ ~trail[i].item.ok)
              => IsDefaults(trail[i + 1].from)

\* the fetch failed and main then processed an event on the defaults
C23_Witness ==
    /\ Len(trail) = 2
    /\ trail[1].item = Item("snapshot", "", FALSE)
    /\ trail[2].item.kind = "event"
    /\ trail[2].item.ok
    /\ IsDefaults(trail[2].from)
    /\ ~IsDefaults(state)

----------------------------------------------------------------------------
(* C24: rendering never fails for a valid view: whenever main renders a    *)
(* view with 0 <= progress <= totalDuration, progress = totalDuration      *)
(* (what a tick clamps to at the end of a track) included,                 *)
(* CreateProgressBar returns its bar and the consumer loop continues.      *)
C24_RenderNeverFails ==
    (0 <= state.progress /\ state.progress <= state.duration) => exit # "panic"

----------------------------------------------------------------------------
(* C25: once the player daemon has been started, every path on which the   *)
(* program terminates (event stream not connected, terminal not set raw,   *)
(* signal, quit key, push stream closed) stops the daemon before the       *)
(* process ends: no exit leaves the daemon running.                        *)
C25_DaemonStoppedOnExit ==
    phase = "exited" => daemon # "running"

----------------------------------------------------------------------------
(* C26: in every reachable state of the view, stopped = true implies       *)
(* isPlaying = false, whatever snapshot, push events, ticks and key        *)
(* commands came before (a play/pause toggle while stopped included).      *)
C26_StoppedNotPlaying ==
    state.stopped => ~state.isPlaying

----------------------------------------------------------------------------
(* The remote player as the keeper of the two repeat flags: it carries     *)
(* every request of cycleRepeat out, in the order main sends them, and     *)
(* writes one repeat_context or repeat_track event for each.  The run is   *)
(* fed r keys only.                                                        *)

RepeatPlayer(rc, rt) == [playing |-> FALSE, tracked |-> TRUE, rc |-> rc, rt |-> rt]

\* what GET /status answers
RepeatPlayerStatus(r) ==
    Status(FALSE, TRUE, 30, r.rc, r.rt, FALSE, TRUE, TrackA, 3000)

\* the flags after POST /player/repeat_context or /player/repeat_track
repeatPlayerApply(r, req) ==
    CASE req.op = "repeat_context" -> [r EXCEPT !.rc = req.on]
      [] req.op = "repeat_track"   -> [r EXCEPT !.rt = req.on]
      [] OTHER                     -> r

\* the player carries out the request main waits for and echoes it
RepeatPlayerAnswers ==
    /\ requestReturned(TRUE)
    /\ remote' = repeatPlayerApply(remote, http)
    /\ wire' = Append(wire, Bool(http.op, http.on))

InitRepeat == InitWith("cycle", RepeatPlayer(FALSE, FALSE))

NextRepeat ==
    \/ StartDaemon("ok")
    \/ Connect(TRUE)
    \/ SeedOk(RepeatPlayerStatus(remote))
    \/ SeedFails
    \/ MakeRaw(TRUE)
    \/ OnEvent
    \/ OnTick
    \/ OnKey
    \/ RepeatPlayerAnswers
    \/ ReadMessage
    \/ \E key \in KeysOf(feed) : ReadKey(key)

SpecRepeat == InitRepeat /\ [][NextRepeat]_vars

\* the mode the remote flags stand for, by the rule of applyStatus
RemoteMode(r) ==
    IF r.rt THEN "track" ELSE IF r.rc THEN "context" ELSE "off"

\* no request is in flight and every echo has been taken by main
EchoesConsumed == phase = "loop" /\ http = NoRequest /\ wire = <<>> /\ evCh = <<>>

(* C27: repeat cycling converges with the remote player: when every        *)
(* request of CycleRepeat succeeds, is applied in send order and is echoed *)
(* as one event, then, however the r keys interleave with the echoes,      *)
(* once all echoes have been consumed the view's repeatMode is the mode    *)
(* of the remote flags (track if track-repeat, else context if             *)
(* context-repeat, else off).                                              *)
C27_RepeatConverges ==
    EchoesConsumed => state.repeat = RemoteMode(remote)

----------------------------------------------------------------------------
(* The remote player reporting its repeat flags: another controller sets   *)
(* a flag and the player writes the repeat_context or repeat_track event   *)
(* that reports it.  The view is seeded from the flags, no key is pressed. *)

\* a flag is set to b and reported
RepeatPlayerChanges(type, b) ==
    /\ phase # "exited"
    /\ conn = "open"
    /\ nInputs < InputsOf(feed)
    /\ remote' = repeatPlayerApply(remote, Request(type, b, 0))
    /\ wire' = Append(wire, Bool(type, b))
    /\ nInputs' = nInputs + 1
    /\ UNCHANGED <<phase, exit, daemon, state, conn, reader, evCh, evClosed, keysCh,
                   pend, http, last, trail, skipped, feed, evLog, keyLog>>

InitFlags == \E rc \in BOOLEAN, rt \in BOOLEAN : InitWith("flags", RepeatPlayer(rc, rt))

NextFlags ==
    \/ StartDaemon("ok")
    \/ Connect(TRUE)
    \/ SeedOk(RepeatPlayerStatus(remote))
    \/ MakeRaw(TRUE)
    \/ OnEvent
    \/ OnTick
    \/ ReadMessage
    \/ \E type \in {"repeat_context", "repeat_track"}, b \in BOOLEAN :
          RepeatPlayerChanges(type, b)

SpecFlags == InitFlags /\ [][NextFlags]_vars

(* C28: the repeat mode derived from push events agrees with the one a     *)
(* snapshot would give: starting from a view seeded from the remote flags, *)
(* after any sequence of repeat_context and repeat_track events has been   *)
(* applied, repeatMode is track if the last reported track-repeat flag is  *)
(* true, else context if the last reported context-repeat flag is true,    *)
(* else off: the rule of applyStatus.                                      *)
C28_EventsAgreeWithSnapshot ==
    (phase = "loop" /\ wire = <<>> /\ evCh = <<>>)
        => state.repeat = applyStatus(state, RepeatPlayerStatus(remote)).repeat

----------------------------------------------------------------------------
(* The chunks handleKey's switch has a case for, by what the case does *)

QuitChunks == { <<113>>, <<3>> }

SkipChunks == { <<108>>, <<27, 91, 67>>, <<104>>, <<27, 91, 68>> }

BoundChunks ==
    QuitChunks \cup SkipChunks \cup
    { <<32>>, <<107>>, <<27, 91, 65>>, <<106>>, <<27, 91, 66>>, <<115>>, <<114>> }

\* handleKey returns after a skip command's call
SkipDoneStep == KeyDoneStep /\ pend.cmd \in {"next", "prev"}

(* C29: every chunk taken from keysCh triggers at most one command; Next,  *)
(* Previous and Quit send at most one request and leave the view           *)
(* unchanged; a chunk that matches no binding (an unbound key, or several  *)
(* presses delivered by one read) sends no request, leaves the view        *)
(* unchanged and does not end the loop.                                    *)
C29_KeyChunkFrame ==
    [][ /\ KeyTaken =>
              /\ CommandNow = keyCommand(Head(keysCh))
              /\ Len(Head(keysCh)) \in 1..4
              /\ state' = state \/ phase' # "request"
           \* Next and Previous: one request, sent now
        /\ (KeyTaken /\ Head(keysCh) \in SkipChunks) =>
              /\ phase' = "request"
              /\ Len(pend'.reqs) = 1
              /\ http' \in {Request("next", FALSE, 0), Request("prev", FALSE, 0)}
              /\ state' = state
        /\ SkipDoneStep =>
              /\ http' = NoRequest
              /\ state' = state
           \* Quit: no request
        /\ (KeyTaken /\ Head(keysCh) \in QuitChunks) =>
              /\ http' = NoRequest
              /\ state' = state
              /\ phase' = "exited"
           \* no binding
        /\ (KeyTaken /\ Head(keysCh) \notin BoundChunks) =>
              /\ http' = NoRequest
              /\ pend' = NoPend
              /\ state' = state
              /\ phase' = "loop"
              /\ exit' = "none"
      ]_vars

\* main has handled the chunk of two j presses read at once: the view is
\* as it was and the loop goes on
C29_Witness ==
    /\ last = Item("key", "none", TRUE)
    /\ <<106, 106>> \in { keyLog[i] : i \in 1..Len(keyLog) }
    /\ keysCh = <<>>
    /\ phase = "loop"
    /\ trail[Len(trail)].from = state

----------------------------------------------------------------------------
(* The runs that are fed a seek past the end of the track *)

InitPast == InitWith("past", NoRemote)

SpecPast == InitPast /\ [][Next]_vars

----------------------------------------------------------------------------
(* C30: a tick never decreases progress: progress after a tick is greater  *)
(* than or equal to progress before it, also right after a seek or         *)
(* metadata event or after the snapshot seed changed totalDuration.        *)
C30_TickMonotone ==
    [][ TickStep => state'.progress >= state.progress ]_vars

====
